---- MODULE Spec2Model ----
(***************************************************************************)
(* The log-tail view of src/routes/+page.svelte as a state machine.        *)
(*                                                                         *)
(* The component runs on the browser's single-threaded event loop.  Each   *)
(* action below is one task of that loop together with the microtasks it   *)
(* queues: a handler's synchronous part, Svelte's flush of the invalidated *)
(* component (scheduled as a microtask by every assignment to a component  *)
(* variable) and the continuation of `await tick()`, which is queued       *)
(* behind that flush.  No other task can run in between.                   *)
(*                                                                         *)
(* The EventSource objects, the fetch promise, the clock, the user and the *)
(* scroll container are the environment.  An EventSource dispatches        *)
(* message and error events only while its readyState is not CLOSED;       *)
(* close() sets it to CLOSED and is a no-op on a closed source.            *)
(***************************************************************************)
EXTENDS Integers, Sequences, FiniteSets, TLC

VARIABLES
    phase,                \* "created" (script has run), "mounted", "destroyed"
    lines,                \* let lines (line 10)
    autoScroll,           \* let autoScroll (line 11)
    eventSource,          \* let eventSource (line 13): 0 is null, else a handle
    readyState,           \* readyState of every EventSource created so far
    applications,         \* let applications (line 14)
    selectedApplication,  \* let selectedApplication (line 15)
    isLoading,            \* let isLoading (line 16)
    pendingFetches,       \* fetch('/api/applications') promises not yet settled
    now,                  \* the clock, in seconds
    scrollTop,            \* terminalDiv.scrollTop
    scrollTarget,         \* destination of the smooth scroll in progress
    scrollPending,        \* a scroll event is queued for terminalDiv
    env,                  \* the surroundings: window, backend, directory, network
    delivered,            \* history: messages handled since the session started
    lastOp                \* history: the handler that ran last, with its input

vars == <<phase, lines, autoScroll, eventSource, readyState, applications,
          selectedApplication, isLoading, pendingFetches, now, scrollTop,
          scrollTarget, scrollPending, env, delivered, lastOp>>

-----------------------------------------------------------------------------
(* Bounds of the model *)

MaxLines == 3
MaxConns == 2
MaxTime == 1
MaxFetch == 1
MaxScrollPos == 520

-----------------------------------------------------------------------------
(* Values *)

Undefined == "<undefined>"

Min(a, b) == IF a < b THEN a ELSE b
Max(a, b) == IF a > b THEN a ELSE b

App(kind, name, application, pod_name) ==
    [kind |-> kind, name |-> name, application |-> application, pod_name |-> pod_name]

NoApp == App("null", "", "", "")

Apps == {App("SinglePod", "web", "", ""), App("MultiPod", "", "db", "db-0")}

\* JSON.stringify(application)
Stringify(app) ==
    IF app.kind = "SinglePod"
    THEN "{\"SinglePod\":\"" \o app.name \o "\"}"
    ELSE "{\"MultiPod\":{\"application\":\"" \o app.application
             \o "\",\"pod_name\":\"" \o app.pod_name \o "\"}}"

\* The text of an option of the selector
OptionLabel(app) ==
    IF app.kind = "SinglePod"
    THEN app.name
    ELSE app.application \o " - " \o app.pod_name

\* new Date().toISOString() with the milliseconds and the zone suffix cut off
getCurrentUTCTimestamp(t) == "1970-01-01T00:00:0" \o ToString(t)

Line(content, timestamp, type) ==
    [content |-> content, timestamp |-> timestamp, type |-> type]

\* event.data: text that JSON.parse rejects, or the object it yields.  A field
\* the object lacks reads as undefined.
Event(parses, type, row, message, timestamp, replace_last_row) ==
    [parses |-> parses, type |-> type, row |-> row, message |-> message,
     timestamp |-> timestamp, replace_last_row |-> replace_last_row]

Rows == {<<"line1", "2024-01-01T10:00:01">>, <<"line2", "2024-01-01T10:00:02">>}

DataEvents ==
    {Event(TRUE, "Data", r[1], Undefined, r[2], f) : r \in Rows, f \in BOOLEAN}

SystemEvents == {Event(TRUE, "System", Undefined, "done", "2024-01-01T10:00:03", FALSE)}

Unparseable == Event(FALSE, Undefined, Undefined, Undefined, Undefined, FALSE)
UnknownKind == Event(TRUE, "Heartbeat", Undefined, Undefined, "2024-01-01T10:00:04", FALSE)
DataNoFields == Event(TRUE, "Data", Undefined, Undefined, Undefined, FALSE)

MalformedEvents == {Unparseable, UnknownKind, DataNoFields}

Events == DataEvents \cup SystemEvents \cup MalformedEvents

NoEvent == Unparseable

\* What lastOp records: the handler, the handle that dispatched the event, the
\* payload, and the length and the last line's kind of the buffer the handler
\* found
Op(op, conn, event) ==
    [op |-> op, conn |-> conn, event |-> event, before |-> Len(lines),
     over |-> IF Len(lines) = 0 THEN "none" ELSE lines[Len(lines)].type]

-----------------------------------------------------------------------------
(* The scroll container *)

LineHeight == 24
Padding == 8
Threshold == 10
NoTarget == -1

\* terminalDiv.scrollHeight when n lines are rendered
ScrollHeight(n) == Max(env.clientHeight, 2 * Padding + n * LineHeight)

MaxScrollTop(n) == ScrollHeight(n) - env.clientHeight

\* Variant: the comparison with the threshold is not strict
IsAtBottomInclusive(scrollHeight, clientHeight, top) ==
    LET d == scrollHeight - clientHeight - top
    IN  (IF d < 0 THEN -d ELSE d) <= Threshold

\* handleScroll's test
IsAtBottom(scrollHeight, clientHeight, top) ==
    LET d == scrollHeight - clientHeight - top
    IN  (IF d < 0 THEN -d ELSE d) < Threshold

\* terminalDiv is bound while the component is mounted
terminalDiv == phase = "mounted"

-----------------------------------------------------------------------------
(* The surroundings a run takes place in: the height of the window, the     *)
(* payloads the backend sends, the applications the directory lists, and    *)
(* whether the network fails (transport errors, rejected fetches).          *)

Environment(clientHeight, feed, directory, faulty) ==
    [clientHeight |-> clientHeight, feed |-> feed, directory |-> directory,
     faulty |-> faulty]

\* A window that shows every line the model can hold, and one that shows one
TallWindow == 2 * Padding + MaxLines * LineHeight
ShortWindow == 2 * Padding + LineHeight

Progress == {e \in DataEvents : e.row = "line1"}

Web == App("SinglePod", "web", "", "")

\* A backend that sends every kind of payload over a network that works
Backend == Environment(TallWindow, Events, {Web}, FALSE)

\* A network that fails, under a backend that reports the progress of one row
Network == Environment(TallWindow, Progress, Apps, TRUE)

\* A window too short for the log
Window == Environment(ShortWindow, Progress, {Web}, FALSE)

Environments == {Backend, Network, Window}

-----------------------------------------------------------------------------
(* The line buffer *)

\* Variant: the new line is put in front
PushFront(ls, line) == <<line>> \o ls

\* Variant: the oldest line makes room for the new one
PushEvicting(ls, line) ==
    IF Len(ls) >= 2 THEN Append(Tail(ls), line) ELSE Append(ls, line)

\* [...lines, line]
Push(ls, line) == Append(ls, line)

\* Variant: the seed is appended to what the buffer holds
ResetAppending(ls, line) == Append(ls, line)

\* lines = [line]
Reset(ls, line) == <<line>>

\* Variant: the last line is kept and the new one appended
ReplaceLastKeeping(ls, line) == Append(ls, line)

\* Variant: the last line is dropped and nothing put in its place
ReplaceLastDropping(ls, line) == SubSeq(ls, 1, Len(ls) - 1)

\* Variant: the line is put in place of the first one
ReplaceFirst(ls, line) == <<line>> \o SubSeq(ls, 2, Len(ls))

\* [...lines.slice(0, -1), line]
ReplaceLast(ls, line) == Append(SubSeq(ls, 1, Len(ls) - 1), line)

\* Variant: a replace-last-row message is ignored while the buffer is empty
ApplyMessageDropOnEmpty(ls, message) ==
    IF message.type = "Data"
    THEN IF message.replace_last_row
         THEN IF Len(ls) > 0
              THEN ReplaceLast(ls, Line(message.row, message.timestamp, "data"))
              ELSE ls
         ELSE Push(ls, Line(message.row, message.timestamp, "data"))
    ELSE IF message.type = "System"
         THEN Push(ls, Line(message.message, message.timestamp, "system"))
         ELSE ls

\* Variant: a System message overwrites the last line
ApplyMessageSystemReplaces(ls, message) ==
    IF message.type = "Data"
    THEN IF message.replace_last_row /\ Len(ls) > 0
         THEN ReplaceLast(ls, Line(message.row, message.timestamp, "data"))
         ELSE Push(ls, Line(message.row, message.timestamp, "data"))
    ELSE IF message.type = "System"
         THEN IF Len(ls) > 0
              THEN ReplaceLast(ls, Line(message.message, message.timestamp, "system"))
              ELSE Push(ls, Line(message.message, message.timestamp, "system"))
         ELSE ls

\* The assignment to lines in handleMessage, for a payload that parsed
ApplyMessage(ls, message) ==
    IF message.type = "Data"
    THEN IF message.replace_last_row /\ Len(ls) > 0
         THEN ReplaceLast(ls, Line(message.row, message.timestamp, "data"))
         ELSE Push(ls, Line(message.row, message.timestamp, "data"))
    ELSE IF message.type = "System"
         THEN Push(ls, Line(message.message, message.timestamp, "system"))
         ELSE ls

\* The line setupSSEConnection resets the buffer to
ConnectedLine(application, t) ==
    Line("Connected to application: " \o Stringify(application),
         getCurrentUTCTimestamp(t), "system")

ConnectionErrorLine(t) == Line("Connection error", getCurrentUTCTimestamp(t), "system")

FetchFailedLine(t) ==
    Line("Failed to fetch applications", getCurrentUTCTimestamp(t), "system")

InitialLine(t) ==
    Line("Please select an application to begin", getCurrentUTCTimestamp(t), "system")

Fresh == [clean |-> TRUE, msgs |-> <<>>]
Spoilt == [clean |-> FALSE, msgs |-> <<>>]

-----------------------------------------------------------------------------
(* Scrolling *)

\* Variant: the destination is measured before the view shows `ls`
scrollToBottomStale(ls, target) ==
    IF autoScroll /\ terminalDiv
    THEN MaxScrollTop(Len(lines))
    ELSE target

\* scrollToBottom: the destination of the smooth scroll it starts once the
\* view shows `ls`, or the running one's when it does nothing
scrollToBottom(ls, target) ==
    IF autoScroll /\ terminalDiv
    THEN MaxScrollTop(Len(ls))
    ELSE target

\* The flush that follows an assignment of `ls` to lines: the container is
\* laid out again, and a scroll position beyond the new extent is clamped,
\* which queues a scroll event.  `scrolls` tells whether the handler goes on
\* to call scrollToBottom.
Flush(ls, scrolls) ==
    LET top == Min(scrollTop, MaxScrollTop(Len(ls)))
        kept == IF scrollTarget = NoTarget
                THEN NoTarget
                ELSE Min(scrollTarget, MaxScrollTop(Len(ls)))
        target == IF scrolls THEN scrollToBottom(ls, kept) ELSE kept
    IN  /\ scrollTop' = top
        /\ scrollTarget' = IF target = top THEN NoTarget ELSE target
        /\ scrollPending' = (scrollPending \/ top # scrollTop)

-----------------------------------------------------------------------------
(* Initial state: the component's script has run, nothing is mounted yet *)

Init ==
    /\ phase = "created"
    /\ lines = <<>>
    /\ autoScroll = TRUE
    /\ eventSource = 0
    /\ readyState = <<>>
    /\ applications = {}
    /\ selectedApplication = NoApp
    /\ isLoading = FALSE
    /\ pendingFetches = 0
    /\ now \in 0..MaxTime
    /\ scrollTop = 0
    /\ scrollTarget = NoTarget
    /\ scrollPending = FALSE
    /\ env \in Environments
    /\ delivered = Spoilt
    /\ lastOp = [op |-> "init", conn |-> 0, event |-> NoEvent, before |-> 0,
                 over |-> "none"]

-----------------------------------------------------------------------------
(* Handlers *)

\* onMount
OnMount ==
    /\ phase = "created"
    /\ phase' = "mounted"
    /\ lines' = Reset(lines, InitialLine(now))
    /\ scrollTop' = 0
    /\ scrollTarget' = NoTarget
    /\ scrollPending' = FALSE
    /\ lastOp' = Op("mount", 0, NoEvent)
    /\ UNCHANGED <<autoScroll, eventSource, readyState, applications,
                   selectedApplication, isLoading, pendingFetches, now, env, delivered>>

\* Variant: the handle held is left open
KeepExisting(rs, es) == rs

\* eventSource.close() on the handle held, if any
CloseExisting(rs, es) ==
    IF es # 0 THEN [rs EXCEPT ![es] = "closed"] ELSE rs

\* Variant: the new EventSource is created without closing the old one
ReconnectLeaking(rs, es) == Append(rs, "open")

\* setupSSEConnection's effect on the connections: the old one closed, a new
\* EventSource created
Reconnect(rs, es) == Append(CloseExisting(rs, es), "open")

\* on:change of the selector: handleApplicationSelect, setupSSEConnection.
\* The options are the fetched applications; after a refetch an option may
\* carry the value already selected, so any of them can be chosen.
Select(application) ==
    /\ phase = "mounted"
    /\ application \in applications
    /\ Len(readyState) < MaxConns
    /\ selectedApplication' = application
    /\ Len(Reset(lines, ConnectedLine(application, now))) <= MaxLines
    /\ readyState' = Reconnect(readyState, eventSource)
    /\ eventSource' = Len(readyState')
    /\ lines' = Reset(lines, ConnectedLine(application, now))
    /\ delivered' = Fresh
    /\ Flush(lines', FALSE)
    /\ lastOp' = Op("select", eventSource', NoEvent)
    /\ UNCHANGED <<phase, autoScroll, applications, isLoading, pendingFetches, now, env>>

\* handleMessage, as dispatched by EventSource c.  JSON.parse throwing
\* rejects the handler's promise before anything is assigned.
HandleMessage(c, event) ==
    /\ c \in 1..Len(readyState)
    /\ readyState[c] = "open"
    /\ event \in env.feed
    /\ lastOp' = Op("message", c, event)
    /\ IF event.parses
       THEN /\ lines' = ApplyMessage(lines, event)
            /\ Len(lines') <= MaxLines
            /\ delivered' =
                  IF delivered.clean /\ event \in DataEvents /\ ~event.replace_last_row
                  THEN [delivered EXCEPT !.msgs = Append(@, event)]
                  ELSE Spoilt
            /\ Flush(lines', TRUE)
       ELSE /\ delivered' = Spoilt
            /\ UNCHANGED <<lines, scrollTop, scrollTarget, scrollPending>>
    /\ UNCHANGED <<phase, autoScroll, eventSource, readyState, applications,
                   selectedApplication, isLoading, pendingFetches, now, env>>

\* Variant: the error handler gives the connection up
HandleErrorClosing(c, fatal) ==
    /\ c \in 1..Len(readyState)
    /\ readyState[c] = "open"
    /\ env.faulty
    /\ Len(lines) < MaxLines
    /\ readyState' = [readyState EXCEPT ![c] = "closed"]
    /\ lines' = Push(lines, ConnectionErrorLine(now))
    /\ delivered' = Spoilt
    /\ Flush(lines', TRUE)
    /\ lastOp' = Op(IF fatal THEN "fatal" ELSE "error", c, NoEvent)
    /\ UNCHANGED <<phase, autoScroll, eventSource, applications,
                   selectedApplication, isLoading, pendingFetches, now, env>>

\* Variant: the error handler switches auto-scroll on
HandleErrorPinning(c, fatal) ==
    /\ c \in 1..Len(readyState)
    /\ readyState[c] = "open"
    /\ env.faulty
    /\ Len(lines) < MaxLines
    /\ readyState' = IF fatal THEN [readyState EXCEPT ![c] = "closed"] ELSE readyState
    /\ lines' = Push(lines, ConnectionErrorLine(now))
    /\ delivered' = Spoilt
    /\ autoScroll' = TRUE
    /\ Flush(lines', TRUE)
    /\ lastOp' = Op(IF fatal THEN "fatal" ELSE "error", c, NoEvent)
    /\ UNCHANGED <<phase, eventSource, applications,
                   selectedApplication, isLoading, pendingFetches, now, env>>

\* eventSource.onerror, as dispatched by EventSource c.  The browser either
\* reconnects (the source stays open) or gives up (it closes the source).
HandleError(c, fatal) ==
    /\ c \in 1..Len(readyState)
    /\ readyState[c] = "open"
    /\ env.faulty
    /\ Len(lines) < MaxLines
    /\ readyState' = IF fatal THEN [readyState EXCEPT ![c] = "closed"] ELSE readyState
    /\ lines' = Push(lines, ConnectionErrorLine(now))
    /\ delivered' = Spoilt
    /\ Flush(lines', TRUE)
    /\ lastOp' = Op(IF fatal THEN "fatal" ELSE "error", c, NoEvent)
    /\ UNCHANGED <<phase, autoScroll, eventSource, applications,
                   selectedApplication, isLoading, pendingFetches, now, env>>

\* Variant: clearing also closes the connection
ClearTerminalClosing ==
    /\ phase = "mounted"
    /\ lines' = <<>>
    /\ readyState' = CloseExisting(readyState, eventSource)
    /\ delivered' = Spoilt
    /\ Flush(lines', FALSE)
    /\ lastOp' = Op("clear", 0, NoEvent)
    /\ UNCHANGED <<phase, autoScroll, eventSource, applications,
                   selectedApplication, isLoading, pendingFetches, now, env>>

\* The Clear Terminal button
ClearTerminal ==
    /\ phase = "mounted"
    /\ lines' = <<>>
    /\ delivered' = Spoilt
    /\ Flush(lines', FALSE)
    /\ lastOp' = Op("clear", 0, NoEvent)
    /\ UNCHANGED <<phase, autoScroll, eventSource, readyState, applications,
                   selectedApplication, isLoading, pendingFetches, now, env>>

\* Variant: the view goes without closing the connection
OnDestroyLeaking ==
    /\ phase = "mounted"
    /\ phase' = "destroyed"
    /\ scrollTop' = 0
    /\ scrollTarget' = NoTarget
    /\ scrollPending' = FALSE
    /\ lastOp' = Op("destroy", 0, NoEvent)
    /\ UNCHANGED <<lines, autoScroll, eventSource, readyState, applications,
                   selectedApplication, isLoading, pendingFetches, now, env, delivered>>

\* onDestroy; the view is gone afterwards
OnDestroy ==
    /\ phase = "mounted"
    /\ phase' = "destroyed"
    /\ readyState' = CloseExisting(readyState, eventSource)
    /\ scrollTop' = 0
    /\ scrollTarget' = NoTarget
    /\ scrollPending' = FALSE
    /\ lastOp' = Op("destroy", 0, NoEvent)
    /\ UNCHANGED <<lines, autoScroll, eventSource, applications, selectedApplication,
                   isLoading, pendingFetches, now, env, delivered>>

\* on:mousedown of the selector: fetchApplications up to its first await
MouseDown ==
    /\ phase = "mounted"
    /\ pendingFetches < MaxFetch
    /\ isLoading' = TRUE
    /\ pendingFetches' = pendingFetches + 1
    /\ lastOp' = Op("mousedown", 0, NoEvent)
    /\ UNCHANGED <<phase, lines, autoScroll, eventSource, readyState, applications,
                   selectedApplication, now, scrollTop, scrollTarget, scrollPending,
                   env, delivered>>

\* fetchApplications once the response has arrived and parsed
FetchResolve(response) ==
    /\ pendingFetches > 0
    /\ pendingFetches' = pendingFetches - 1
    /\ applications' = response
    /\ isLoading' = FALSE
    /\ lastOp' = Op("fetched", 0, NoEvent)
    /\ UNCHANGED <<phase, lines, autoScroll, eventSource, readyState,
                   selectedApplication, now, scrollTop, scrollTarget, scrollPending,
                   env, delivered>>

\* Variant: a failed fetch also closes the session's connection
FetchRejectClosing ==
    /\ pendingFetches > 0
    /\ env.faulty
    /\ Len(lines) < MaxLines
    /\ pendingFetches' = pendingFetches - 1
    /\ lines' = Push(lines, FetchFailedLine(now))
    /\ readyState' = CloseExisting(readyState, eventSource)
    /\ delivered' = Spoilt
    /\ isLoading' = FALSE
    /\ Flush(lines', FALSE)
    /\ lastOp' = Op("fetchfailed", 0, NoEvent)
    /\ UNCHANGED <<phase, autoScroll, eventSource, applications,
                   selectedApplication, now, env>>

\* fetchApplications when fetch or response.json() rejects: the catch block
FetchReject ==
    /\ pendingFetches > 0
    /\ env.faulty
    /\ Len(lines) < MaxLines
    /\ pendingFetches' = pendingFetches - 1
    /\ lines' = Push(lines, FetchFailedLine(now))
    /\ delivered' = Spoilt
    /\ isLoading' = FALSE
    /\ Flush(lines', FALSE)
    /\ lastOp' = Op("fetchfailed", 0, NoEvent)
    /\ UNCHANGED <<phase, autoScroll, eventSource, readyState, applications,
                   selectedApplication, now, env>>

\* The auto-scroll checkbox (bind:checked)
ToggleAutoScroll ==
    /\ phase = "mounted"
    /\ autoScroll' = ~autoScroll
    /\ lastOp' = Op("toggle", 0, NoEvent)
    /\ UNCHANGED <<phase, lines, eventSource, readyState, applications,
                   selectedApplication, isLoading, pendingFetches, now, scrollTop,
                   scrollTarget, scrollPending, env, delivered>>

\* handleScroll, on the scroll event queued for terminalDiv
HandleScroll ==
    /\ terminalDiv
    /\ scrollPending
    /\ scrollPending' = FALSE
    /\ autoScroll' = IsAtBottom(ScrollHeight(Len(lines)), env.clientHeight, scrollTop)
    /\ lastOp' = Op("scroll", 0, NoEvent)
    /\ UNCHANGED <<phase, lines, eventSource, readyState, applications,
                   selectedApplication, isLoading, pendingFetches, now, scrollTop,
                   scrollTarget, env, delivered>>

-----------------------------------------------------------------------------
(* Environment *)

\* Where the user may put the scroll position: the top, the bottom, and the
\* two positions around handleScroll's threshold
UserPositions ==
    {p \in 0..MaxScrollTop(Len(lines)) :
        \/ p = 0
        \/ MaxScrollTop(Len(lines)) - p \in {0, Threshold - 1, Threshold}}

\* The user scrolls the container, which ends a smooth scroll in progress
UserScroll(p) ==
    /\ terminalDiv
    /\ p # scrollTop
    /\ scrollTop' = p
    /\ scrollTarget' = NoTarget
    /\ scrollPending' = TRUE
    /\ lastOp' = Op("userscroll", 0, NoEvent)
    /\ UNCHANGED <<phase, lines, autoScroll, eventSource, readyState, applications,
                   selectedApplication, isLoading, pendingFetches, now, env,
                   delivered>>

\* One frame of the smooth scroll started by scrollTo: the position moves
\* part of the way, or all the way, to the destination
AnimationFrame(arrives) ==
    /\ terminalDiv
    /\ scrollTarget # NoTarget
    /\ LET mid == (scrollTop + scrollTarget) \div 2
           p == IF arrives \/ mid = scrollTop THEN scrollTarget ELSE mid
       IN  /\ scrollTop' = p
           /\ scrollTarget' = IF p = scrollTarget THEN NoTarget ELSE scrollTarget
    /\ scrollPending' = TRUE
    /\ lastOp' = Op("frame", 0, NoEvent)
    /\ UNCHANGED <<phase, lines, autoScroll, eventSource, readyState, applications,
                   selectedApplication, isLoading, pendingFetches, now, env,
                   delivered>>

\* A second passes
ClockTick ==
    /\ now < MaxTime
    /\ now' = now + 1
    /\ UNCHANGED <<phase, lines, autoScroll, eventSource, readyState, applications,
                   selectedApplication, isLoading, pendingFetches, scrollTop,
                   scrollTarget, scrollPending, env, delivered, lastOp>>

-----------------------------------------------------------------------------

Next ==
    \/ OnMount
    \/ \E application \in Apps : Select(application)
    \/ \E c \in 1..MaxConns, event \in Events : HandleMessage(c, event)
    \/ \E c \in 1..MaxConns, fatal \in BOOLEAN : HandleError(c, fatal)
    \/ ClearTerminal
    \/ OnDestroy
    \/ MouseDown
    \/ FetchResolve(env.directory)
    \/ FetchReject
    \/ ToggleAutoScroll
    \/ HandleScroll
    \/ \E p \in UserPositions : UserScroll(p)
    \/ \E arrives \in BOOLEAN : AnimationFrame(arrives)
    \/ ClockTick

Spec == Init /\ [][Next]_vars

-----------------------------------------------------------------------------
(* Streaming in a short window over a network that fails: the component is   *)
(* mounted and the application list has arrived.                             *)

Outage == Environment(ShortWindow, Progress, {Web}, TRUE)

InitStreaming ==
    /\ phase = "mounted"
    /\ lines = <<InitialLine(0)>>
    /\ autoScroll = TRUE
    /\ eventSource = 0
    /\ readyState = <<>>
    /\ applications = Outage.directory
    /\ selectedApplication = NoApp
    /\ isLoading = FALSE
    /\ pendingFetches = 0
    /\ now = 0
    /\ scrollTop = 0
    /\ scrollTarget = NoTarget
    /\ scrollPending = FALSE
    /\ env = Outage
    /\ delivered = Spoilt
    /\ lastOp = [op |-> "fetched", conn |-> 0, event |-> NoEvent, before |-> 1,
                 over |-> "system"]

NextStreaming ==
    \/ \E application \in Apps : Select(application)
    \/ \E c \in 1..MaxConns, event \in Events : HandleMessage(c, event)
    \/ \E c \in 1..MaxConns, fatal \in BOOLEAN : HandleError(c, fatal)
    \/ ClearTerminal
    \/ ToggleAutoScroll
    \/ HandleScroll
    \/ \E p \in UserPositions : UserScroll(p)
    \/ \E arrives \in BOOLEAN : AnimationFrame(arrives)

SpecStreaming == InitStreaming /\ [][NextStreaming]_vars

-----------------------------------------------------------------------------
(* The same with nobody at the window: the user selects the application and  *)
(* then neither scrolls, nor unticks auto-scroll, nor clears the terminal.   *)

NextUnattended ==
    \/ \E application \in Apps : Select(application)
    \/ \E c \in 1..MaxConns, event \in Events : HandleMessage(c, event)
    \/ \E c \in 1..MaxConns, fatal \in BOOLEAN : HandleError(c, fatal)
    \/ HandleScroll
    \/ \E arrives \in BOOLEAN : AnimationFrame(arrives)

SpecUnattended == InitStreaming /\ [][NextUnattended]_vars

-----------------------------------------------------------------------------
(* handleScroll on its own: a scroll event finds the container with any of   *)
(* a range of geometries, whatever auto-scroll was.                          *)

RenderedCounts == {1, 41}
ClientHeights == {ShortWindow, 500, 507}

InitScroll ==
    /\ phase = "mounted"
    /\ lines \in {[i \in 1..n |-> InitialLine(0)] : n \in RenderedCounts}
    /\ autoScroll \in BOOLEAN
    /\ eventSource = 0
    /\ readyState = <<>>
    /\ applications = {}
    /\ selectedApplication = NoApp
    /\ isLoading = FALSE
    /\ pendingFetches = 0
    /\ now = 0
    /\ scrollTop \in 0..MaxScrollPos
    /\ scrollTarget = NoTarget
    /\ scrollPending = TRUE
    /\ env \in {Environment(h, {}, {}, FALSE) : h \in ClientHeights}
    /\ delivered = Spoilt
    /\ lastOp = [op |-> "init", conn |-> 0, event |-> NoEvent, before |-> 0,
                 over |-> "none"]

NextScroll == HandleScroll

SpecScroll == InitScroll /\ [][NextScroll]_vars

-----------------------------------------------------------------------------
(* Properties *)

Open == {c \in 1..Len(readyState) : readyState[c] = "open"}

IsReplace(event) == event.parses /\ event.type = "Data" /\ event.replace_last_row

\* C1: in every reachable state at most one EventSource is open; a selection
\* closes the connection held before it creates the new one.
C1_AtMostOneOpen == Cardinality(Open) <= 1

\* A second session has been started over a first one
C1_Superseded ==
    /\ lastOp.op = "select"
    /\ Len(readyState) = 2
    /\ readyState[1] = "closed"
    /\ readyState[2] = "open"

\* C2: a message or error event that changes the buffer was dispatched by the
\* EventSource the component holds, never by one a later selection superseded.
C2_NoStaleEvents ==
    [][\A c \in 1..MaxConns :
          ( /\ \/ \E event \in Events : HandleMessage(c, event)
               \/ \E fatal \in BOOLEAN : HandleError(c, fatal)
            /\ lines' # lines )
          => c = eventSource]_vars

\* A message of the second session was applied after the first was superseded
C2_SecondSessionStreams ==
    /\ lastOp.op = "message"
    /\ lastOp.conn = 2
    /\ readyState[1] = "closed"
    /\ Len(lines) = lastOp.before + 1

\* C3: a selection leaves the buffer holding exactly the one System line that
\* announces the new target, in the step that creates the new connection, so
\* before that connection can deliver anything.
C3_SelectResets ==
    [][\A application \in Apps :
          Select(application) =>
             /\ Len(lines') = 1
             /\ lines'[1] = ConnectedLine(application, now)
             /\ lines'[1].type = "system"
             /\ delivered'.msgs = <<>>]_vars

\* A selection made while the buffer held more than the seed of a session
C3_ResetAfterStreaming ==
    /\ lastOp.op = "select"
    /\ lastOp.before > 1
    /\ Len(readyState) = 2
    /\ Len(lines) = 1

\* C4: as long as a session has received nothing but Data messages without the
\* replace-last-row flag, the buffer holds the seed line followed by one Data
\* line per message, with the row and timestamp of each, in delivery order.
C4_AppendsInOrder ==
    delivered.clean =>
       /\ Len(lines) = Len(delivered.msgs) + 1
       /\ \A i \in 1..Len(delivered.msgs) :
             lines[i + 1] = Line(delivered.msgs[i].row, delivered.msgs[i].timestamp, "data")

\* Two different Data messages have been appended to a fresh session
C4_TwoAppended ==
    /\ delivered.clean
    /\ Len(delivered.msgs) = 2
    /\ delivered.msgs[1] # delivered.msgs[2]

\* C5: after a Data message with the replace-last-row flag has been handled on
\* a buffer that was not empty, the buffer has the length it had and its last
\* line is the Data line with the message's row and timestamp.
C5_ReplaceKeepsLength ==
    (lastOp.op = "message" /\ IsReplace(lastOp.event) /\ lastOp.before > 0) =>
       /\ Len(lines) = lastOp.before
       /\ lines[Len(lines)] = Line(lastOp.event.row, lastOp.event.timestamp, "data")

\* The last of several lines has been replaced
C5_Replaced ==
    /\ lastOp.op = "message"
    /\ IsReplace(lastOp.event)
    /\ lastOp.before = 2
    /\ Len(lines) = 2

\* C6: a Data message with the replace-last-row flag handled on an empty
\* buffer leaves what the same message without the flag would leave: the one
\* Data line.
C6_ReplaceOnEmptyAppends ==
    (lastOp.op = "message" /\ IsReplace(lastOp.event) /\ lastOp.before = 0) =>
       /\ Len(lines) = 1
       /\ lines = <<Line(lastOp.event.row, lastOp.event.timestamp, "data")>>

\* A replace-last-row message has been handled after Clear Terminal
C6_ReplacedOnEmpty ==
    /\ lastOp.op = "message"
    /\ IsReplace(lastOp.event)
    /\ lastOp.before = 0
    /\ eventSource # 0

\* C7: a System message appends a System line; every line the buffer held,
\* the last one included, stays as it was.
C7_SystemAppends ==
    [][\A c \in 1..MaxConns, event \in SystemEvents :
          HandleMessage(c, event) =>
             lines' = Append(lines, Line(event.message, event.timestamp, "system"))]_vars

\* A System message has been handled after a Data line
C7_SystemAfterData ==
    /\ lastOp.op = "message"
    /\ lastOp.event \in SystemEvents
    /\ Len(lines) = 3
    /\ lines[2].type = "data"
    /\ lines[3].type = "system"

\* C8: Clear Terminal empties the buffer, whatever the session's state, and
\* leaves the handle and the state of every connection as they were.
C8_ClearKeepsConnection ==
    [][ClearTerminal =>
          /\ Len(lines') = 0
          /\ eventSource' = eventSource
          /\ readyState' = readyState]_vars

\* The connection that was open when the buffer was cleared has since
\* delivered a message, which was applied to the empty buffer
C8_StreamsAfterClear ==
    /\ lastOp.op = "message"
    /\ lastOp.conn = eventSource
    /\ lastOp.before = 0
    /\ Len(lines) = 1
    /\ readyState[eventSource] = "open"

\* The "connected" line of a session with `application`
IsSeed(line, application) ==
    /\ line.type = "system"
    /\ line.content = "Connected to application: " \o Stringify(application)

\* C9, as stated: once a session has started the buffer is never empty and
\* carries the session's "connected" line.
C9_NonEmptyOnceStarted ==
    eventSource # 0 =>
       /\ Len(lines) > 0
       /\ \E i \in 1..Len(lines) : IsSeed(lines[i], selectedApplication)

\* C9, amended: a session starts with its "connected" line as the only line;
\* from then on only Clear Terminal empties the buffer, and the "connected"
\* line stays first until Clear Terminal, or until a replace-last-row message
\* finds it to be the only line.
C9_SeedKeptUntilCleared ==
    [][/\ eventSource' # eventSource =>
             lines' = <<ConnectedLine(selectedApplication', now)>>
       /\ (eventSource # 0 /\ Len(lines) > 0 /\ Len(lines') = 0) => ClearTerminal
       /\ ( /\ eventSource # 0
            /\ eventSource' = eventSource
            /\ Len(lines) > 0
            /\ IsSeed(lines[1], selectedApplication)
            /\ ~(Len(lines') > 0 /\ lines'[1] = lines[1]) )
          => \/ ClearTerminal
             \/ /\ Len(lines) = 1
                /\ \E c \in 1..MaxConns, event \in DataEvents :
                      IsReplace(event) /\ HandleMessage(c, event)]_vars

\* A session has filled the buffer and its "connected" line is still first
C9_SeedStillFirst ==
    /\ eventSource # 0
    /\ lastOp.op = "message"
    /\ Len(lines) = 3
    /\ IsSeed(lines[1], selectedApplication)

\* C10, as stated: a payload that is not a well-formed Data or System message
\* changes neither the buffer nor the connection.
C10_MalformedDropped ==
    [][\A c \in 1..MaxConns, event \in MalformedEvents :
          HandleMessage(c, event) =>
             /\ lines' = lines
             /\ readyState' = readyState
             /\ eventSource' = eventSource]_vars

\* Where the scroll position is, or is being taken, once a handler has run
Heading == IF scrollTarget = NoTarget THEN scrollTop ELSE scrollTarget

\* C11: a transport error on an open connection appends the one System line
\* "Connection error" and runs the scroll policy; the handler closes nothing
\* and creates nothing: the handle is the same, no EventSource is added, and
\* unless the transport itself gave up the connection is as open as before.
C11_ErrorAppendsLine ==
    [][\A c \in 1..MaxConns, fatal \in BOOLEAN :
          HandleError(c, fatal) =>
             /\ lines' = Append(lines, ConnectionErrorLine(now))
             /\ eventSource' = eventSource
             /\ Len(readyState') = Len(readyState)
             /\ ~fatal => readyState' = readyState
             /\ autoScroll' = autoScroll
             /\ autoScroll => Heading' = MaxScrollTop(Len(lines'))]_vars

\* A message has been applied behind the "Connection error" line
C11_StreamsAfterError ==
    /\ lastOp.op = "message"
    /\ Len(lines) = 3
    /\ lines[2].content = "Connection error"
    /\ lines[3].type = "data"
    /\ readyState[eventSource] = "open"

\* C12: once the view is destroyed no EventSource is open, so the last
\* handler to have run is never a message or error handler; this holds
\* whether or not a session existed and whether or not its connection was
\* already closed.
C12_TeardownReleases ==
    phase = "destroyed" =>
       /\ Open = {}
       /\ lastOp.op \in {"destroy", "fetched", "fetchfailed"}

\* The view was destroyed while a session was streaming
C12_DestroyedWhileStreaming ==
    /\ lastOp.op = "destroy"
    /\ eventSource # 0
    /\ readyState[eventSource] = "closed"
    /\ Len(lines) >= 2
    /\ lines[Len(lines)].type = "data"

\* scrollHeight - clientHeight - scrollTop of the container as it is
DistanceFromBottom == ScrollHeight(Len(lines)) - env.clientHeight - scrollTop

\* C13: after a scroll event autoScroll is true exactly when the distance
\* from the bottom is strictly within 10 pixels either way; 9 gives true, 10
\* gives false, and 1000/500/300 gives false.
C13_ScrollThreshold ==
    lastOp.op = "scroll" =>
       /\ autoScroll = (-10 < DistanceFromBottom /\ DistanceFromBottom < 10)
       /\ DistanceFromBottom = 9 => autoScroll
       /\ DistanceFromBottom = 10 => ~autoScroll
       /\ ( /\ ScrollHeight(Len(lines)) = 1000
            /\ env.clientHeight = 500
            /\ scrollTop = 300 ) => ~autoScroll

\* The scroll event found the container 10 pixels from the bottom
C13_AtTheBoundary ==
    /\ lastOp.op = "scroll"
    /\ ScrollHeight(Len(lines)) = 1000
    /\ env.clientHeight = 500
    /\ scrollTop = 490
    /\ ~autoScroll

\* C14: autoScroll changes only in the scroll-event handler and by the
\* user's toggle; handling a message or a transport error, starting a
\* session and clearing the terminal all leave it as it was.
C14_OnlyScrollOrToggle ==
    [][/\ autoScroll' # autoScroll => HandleScroll \/ ToggleAutoScroll
       /\ \A c \in 1..MaxConns, event \in Events :
             HandleMessage(c, event) => autoScroll' = autoScroll
       /\ \A c \in 1..MaxConns, fatal \in BOOLEAN :
             HandleError(c, fatal) => autoScroll' = autoScroll
       /\ \A application \in Apps :
             Select(application) => autoScroll' = autoScroll
       /\ ClearTerminal => autoScroll' = autoScroll]_vars

\* A transport error was handled while auto-scroll was off, and it is
\* still off
C14_ErrorWhileUnpinned ==
    /\ lastOp.op = "error"
    /\ ~autoScroll
    /\ lines[Len(lines)].content = "Connection error"

\* C15: a failed application-list fetch appends exactly one System line,
\* "Failed to fetch applications", leaves every other line as it was, and
\* leaves the session alone: the connection is neither closed nor replaced,
\* whatever happened to the session while the fetch was in flight.
C15_FetchFailureAppendsLine ==
    [][FetchReject =>
          /\ Len(lines') = Len(lines) + 1
          /\ SubSeq(lines', 1, Len(lines)) = lines
          /\ lines'[Len(lines')].content = "Failed to fetch applications"
          /\ lines'[Len(lines')].type = "system"
          /\ eventSource' = eventSource
          /\ readyState' = readyState
          /\ selectedApplication' = selectedApplication]_vars

\* The fetch failed under the second session, whose connection is open and
\* whose seed line is still there
C15_FailedUnderSecondSession ==
    /\ lastOp.op = "fetchfailed"
    /\ eventSource = 2
    /\ readyState = <<"closed", "open">>
    /\ Len(lines) = 2
    /\ IsSeed(lines[1], selectedApplication)
    /\ lines[2].content = "Failed to fetch applications"

\* The step is a message, a transport error or a fetch failure being handled
Handling ==
    \/ \E c \in 1..MaxConns, event \in Events : HandleMessage(c, event)
    \/ \E c \in 1..MaxConns, fatal \in BOOLEAN : HandleError(c, fatal)
    \/ FetchReject

\* C16 as stated: a line changes under a handler only if it is the last line
\* and of kind Data; a System line is never overwritten.
C16_SystemNeverOverwritten ==
    [][Handling =>
          \A i \in 1..Len(lines) :
             (i <= Len(lines') /\ lines'[i] # lines[i]) =>
                i = Len(lines) /\ lines[i].type = "data"]_vars

\* C16: under a handler a line changes only if it is the last line of the
\* buffer, whatever its kind, and the message is a replace-last-row Data
\* message; the Data line made from the message then stands in its place and
\* every earlier line is as it was.
C16_OnlyLastReplaced ==
    [][Handling =>
          /\ Len(lines') >= Len(lines)
          /\ \A i \in 1..Len(lines) :
                lines'[i] # lines[i] =>
                   /\ i = Len(lines)
                   /\ Len(lines') = Len(lines)
                   /\ lastOp'.op = "message"
                   /\ IsReplace(lastOp'.event)
                   /\ lines'[i] = Line(lastOp'.event.row,
                                       lastOp'.event.timestamp, "data")]_vars

\* A replace-last-row message has overwritten a System line that followed
\* the seed line, and the seed line is as it was
C16_SystemLineOverwritten ==
    /\ lastOp.op = "message"
    /\ IsReplace(lastOp.event)
    /\ lastOp.over = "system"
    /\ lastOp.before = 2
    /\ Len(lines) = 2
    /\ IsSeed(lines[1], selectedApplication)
    /\ lines[2].type = "data"

\* C17: the line written at session start announces the target by the label
\* the selector shows for it (the name for SinglePod, "{application} -
\* {pod_name}" for MultiPod).
C17_SeedShowsLabel ==
    lastOp.op = "select" =>
       /\ Len(lines) = 1
       /\ lines[1].type = "system"
       /\ lines[1].content =
             "Connected to application: " \o OptionLabel(selectedApplication)

\* C19: handling a message, a transport error or a fetch failure never
\* makes the buffer shorter and leaves every line but the last as it was;
\* the buffer gets shorter only by Clear Terminal or by the reset that
\* starts a session.
C19_HandlersNeverRemove ==
    [][/\ Handling =>
             /\ Len(lines') >= Len(lines)
             /\ SubSeq(lines', 1, Len(lines) - 1) = SubSeq(lines, 1, Len(lines) - 1)
       /\ Len(lines') < Len(lines) =>
             \/ ClearTerminal
             \/ \E application \in Apps : Select(application)]_vars

\* A fetch failure was reported under a Data line under the seed line
C19_ThreeKept ==
    /\ lastOp.op = "fetchfailed"
    /\ lastOp.before = 2
    /\ Len(lines) = 3
    /\ IsSeed(lines[1], selectedApplication)
    /\ lines[2].type = "data"
    /\ lines[3].content = "Failed to fetch applications"

\* C18: when a message or a transport error has changed the buffer and
\* autoScroll is on, the viewport is at, or on its way to, the maximum
\* extent of the view that shows the buffer as the handler left it; when
\* autoScroll is off the position and a scroll in progress are left alone.
C18_ScrollAfterMutation ==
    [][( /\ lines' # lines
         /\ \/ \E c \in 1..MaxConns, event \in Events : HandleMessage(c, event)
            \/ \E c \in 1..MaxConns, fatal \in BOOLEAN : HandleError(c, fatal) ) =>
          IF autoScroll
          THEN Heading' = ScrollHeight(Len(lines')) - env.clientHeight
          ELSE scrollTop' = scrollTop /\ scrollTarget' = scrollTarget]_vars

\* A transport error was handled with auto-scroll on while the view was still
\* scrolling to an earlier bottom: the scroll now goes to the bottom of the
\* three lines
C18_ScrollingToNewBottom ==
    /\ lastOp.op = "error"
    /\ autoScroll
    /\ Len(lines) = 3
    /\ lines[3].content = "Connection error"
    /\ 0 < scrollTop
    /\ scrollTop < scrollTarget
    /\ scrollTarget = ScrollHeight(3) - env.clientHeight

\* C20: while the user neither scrolls nor unticks the toggle, so that the
\* only scroll events are those of the program's own smooth scroll to the
\* bottom, autoScroll stays true.
C20_StaysPinned == autoScroll

====
